---- MODULE Spec2Model ----
(***************************************************************************)
(* Verification model of vk_timeline_semaphore: the per-frame batch        *)
(* schedulers of timeline_semaphore_main.cpp (computeDrawCommandsTwoQueues *)
(* and computeDrawCommandsGctOnly), the main loop that drives them, and    *)
(* the device side they talk to (two queues, two timeline semaphores,      *)
(* fences).                                                                *)
(*                                                                         *)
(* The host is one thread: its position is pc.  The device executes the    *)
(* two queues concurrently with the host.  On one queue, submissions start *)
(* in submission order (a semaphore wait also holds back everything        *)
(* submitted later to that queue), several submissions may execute at the  *)
(* same time, and semaphore/fence signals happen in submission order.  A   *)
(* submission counts as executing from the moment its wait and the waits   *)
(* of everything before it in its queue are satisfied.                     *)
(*                                                                         *)
(* Spec explores the main loop with a user who changes the mode, the batch *)
(* size and the job count; SpecFrame the first frame alone, host only, for *)
(* every job-list length; SpecOverlap and SpecEquation the first frames,   *)
(* the latter with a user who also edits the equation; SpecStartup the     *)
(* program from the entry of main() on any Vulkan context.                 *)
(***************************************************************************)
EXTENDS Integers, Sequences, FiniteSets, TLC

(* ---------------- program constants ---------------- *)

\* mcubes_chunk.hpp
MCUBES_MAX_CHUNKS_PER_BATCH == 6
\* mutant: the ring has only as many slots as one batch takes
ChunkCountOneBatch == MCUBES_MAX_CHUNKS_PER_BATCH
MCUBES_CHUNK_COUNT == 12
\* gui.hpp: m_targetCellCounts{508,508,508}, 127 cells per chunk edge: 4 jobs per axis
DefaultJobsPerAxis == 4

(* ---------------- bounds of the model ---------------- *)

\* number of iterations of the main loop that are explored
MaxFrames == 3
\* largest job-list length the GUI is driven to in the main specification
MaxJobs == 7
\* largest job-list length of the one-frame specification SpecFrame
MaxLen == 64
\* number of iterations of the main loop explored by the shorter specifications
\* SpecOverlap and SpecEquation
MaxShortFrames == 2

(* ---------------- inputs ---------------- *)

\* values the GUI is driven to for the number of jobs (x*y*z, each axis >= 1)
JobInputs == {1, MaxJobs}
\* values m_batchSize is driven to; 0 and 7 are outside the slider range
BatchSizeInputs == {0, 2, MCUBES_MAX_CHUNKS_PER_BATCH + 1}
\* texts the equation input is driven to
EquationInputs == {"edited equation"}

VARIABLES
  pc,            \* position of the host thread in main()
  g_ctx,         \* what the Vulkan context offers: the feature and queues setupGlobals checks
  g_frameNumber,
  gui,           \* Gui fields the scheduler reads
  s_useComputeQueue,
  s_mcubesImagePipeline,                   \* the image-fill compute pipeline of compute.cpp
  s_upcomingTimelineValue,
  s_mcubesChunkIndex,
  timelineValue,                           \* g_mcubesChunkArray[i].timelineValue
  s_frameComputePoolWaitTimelineValues,
  s_frameGraphicsPoolWaitTimelineValues,
  s_frameGraphicsPoolFences,               \* TRUE = signaled
  s_submitFrameFences,
  s_frameComputeCmdBufs,
  s_frameGraphicsCmdBufs,
  loc,           \* locals of the running scheduler call
  computeQ,      \* submissions to g_computeQueue that have not completed
  gctQ,          \* submissions to g_gctQueue that have not completed
  s_computeDoneTimelineSemaphore,
  s_graphicsDoneTimelineSemaphore

hostVars == <<pc, g_ctx, g_frameNumber, gui, s_useComputeQueue, s_mcubesImagePipeline,
              s_upcomingTimelineValue,
              s_mcubesChunkIndex, timelineValue, s_frameComputePoolWaitTimelineValues,
              s_frameGraphicsPoolWaitTimelineValues, s_frameComputeCmdBufs,
              s_frameGraphicsCmdBufs, loc>>
fenceVars == <<s_frameGraphicsPoolFences, s_submitFrameFences>>
devVars == <<computeQ, gctQ,
             s_computeDoneTimelineSemaphore, s_graphicsDoneTimelineSemaphore>>
vars == <<hostVars, fenceVars, devVars>>

(* ---------------- helpers ---------------- *)

Max2(a, b) == IF a >= b THEN a ELSE b
Min2(a, b) == IF a <= b THEN a ELSE b

\* mutant: the upper limit is not applied
ClampLowerOnly(x, lo, hi) == Max2(x, lo)
\* glm::clamp<uint32_t>(x, lo, hi)
Clamp(x, lo, hi) == Min2(Max2(x, lo), hi)

\* g_frameNumber & 1u
FrameSlot == g_frameNumber % 2

Range(s) == {s[i] : i \in 1..Len(s)}

\* mutant: the job list is empty
getMcubesJobsEmpty == 0 * gui.xJobs * gui.yJobs * gui.zJobs
\* Gui::getMcubesJobs().size()
getMcubesJobs == gui.xJobs * gui.yJobs * gui.zJobs

\* mutant: the division rounds down, the last partial batch is lost
BatchCountRoundedDown(m, b) == m \div b
\* uint32_t(paramsList.size() + batchSize - 1u) / batchSize
BatchCount(m, b) == (m + b - 1) \div b

\* mutant: the wrap-around goes to slot 1, slot 0 is skipped
NextChunkIndexSkipsZero(i) == IF i + 1 >= MCUBES_CHUNK_COUNT THEN 1 ELSE i + 1
\* ++s_mcubesChunkIndex; if(s_mcubesChunkIndex >= MCUBES_CHUNK_COUNT) s_mcubesChunkIndex = 0;
NextChunkIndex(i) == IF i + 1 >= MCUBES_CHUNK_COUNT THEN 0 ELSE i + 1

RECURSIVE SelectChunks(_, _)
\* the chunkPointerArray filled by the ring-buffer selection loop, n jobs, starting after index i
SelectChunks(i, n) ==
  IF n = 0 THEN <<>> ELSE <<NextChunkIndex(i)>> \o SelectChunks(NextChunkIndex(i), n - 1)

\* mutant: the ring position is not written back after the selection
AdvanceChunkIndexStuck(i, n) == i

RECURSIVE AdvanceChunkIndex(_, _)
AdvanceChunkIndex(i, n) == IF n = 0 THEN i ELSE AdvanceChunkIndex(NextChunkIndex(i), n - 1)

\* mutant: only the first chunk of the batch is looked at
MaxTimelineValueFirstOnly(w, chunks, tv) ==
  IF chunks = <<>> THEN w ELSE Max2(w, tv[Head(chunks)])

\* mutant: the wait value starts from 0 again at every batch
MaxTimelineValueBatchOnly(w, chunks, tv) ==
  IF chunks = <<>> THEN 0
  ELSE CHOOSE m \in {tv[chunks[k]] : k \in 1..Len(chunks)} :
         \A k \in 1..Len(chunks) : tv[chunks[k]] <= m

\* mutant: the std::max loop is missing, the wait value stays as it was
MaxTimelineValueUnset(w, chunks, tv) == w

RECURSIVE MaxTimelineValue(_, _, _)
\* the std::max loop over chunkPointerArray, starting from the value w
MaxTimelineValue(w, chunks, tv) ==
  IF chunks = <<>> THEN w
  ELSE MaxTimelineValue(Max2(w, tv[Head(chunks)]), Tail(chunks), tv)

\* chunkPointerArray[localIndex]->timelineValue for each chunk of the batch, as read by the
\* std::max loop (before the batch stores its own value)
ChunkTimelineValues(chunks, tv) == [k \in 1..Len(chunks) |-> tv[chunks[k]]]

\* the indices paramIndex = batchStart .. batchEnd-1 a batch loop runs over
ParamIndices(bStart, bEnd) == [k \in 1..(bEnd - bStart) |-> bStart + k - 1]

\* vkDeviceWaitIdle returns
DeviceIdle == computeQ = <<>> /\ gctQ = <<>>

NoLoc == [batch |-> 0, nextCmdBufIndex |-> 0, paramsCount |-> 0, batchSize |-> 0, batchCount |-> 0,
          computeWaitTimelineValue |-> 0, computeSignalTimelineValue |-> 0,
          graphicsWaitTimelineValue |-> 0, graphicsSignalTimelineValue |-> 0,
          chunkPointerArray |-> <<>>, chunkTimelineValues |-> <<>>,
          batchStart |-> 0, batchEnd |-> 0, jobsRecorded |-> <<>>, slotsAcquired |-> <<>>,
          previousBatch |-> <<>>, previousGctOnly |-> FALSE, cmdsRecorded |-> <<>>,
          timelineValuesRead |-> <<>>]

(* ---------------- initial state ---------------- *)

Init ==
  /\ pc = "loop"
  /\ g_ctx = [timelineSemaphore |-> TRUE, m_queueGCT |-> TRUE, m_queueC |-> TRUE]
  /\ g_frameNumber = 0
  /\ gui = [m_wantComputeQueue |-> TRUE, m_batchSize |-> MCUBES_MAX_CHUNKS_PER_BATCH,
            xJobs |-> DefaultJobsPerAxis, yJobs |-> DefaultJobsPerAxis, zJobs |-> DefaultJobsPerAxis,
            m_compileFailure |-> FALSE, m_wantSetEquation |-> FALSE,
            m_equationInput |-> "default equation"]
  /\ s_useComputeQueue = TRUE
  /\ s_mcubesImagePipeline = [handle |-> 1, equation |-> "default equation", destroyed |-> FALSE]
  /\ s_upcomingTimelineValue = 1
  /\ s_mcubesChunkIndex = 0
  /\ timelineValue = [i \in 0..(MCUBES_CHUNK_COUNT - 1) |-> 0]
  /\ s_frameComputePoolWaitTimelineValues = [i \in 0..1 |-> 0]
  /\ s_frameGraphicsPoolWaitTimelineValues = [i \in 0..1 |-> 0]
  /\ s_frameGraphicsPoolFences = [i \in 0..1 |-> TRUE]
  /\ s_submitFrameFences = [i \in 0..1 |-> TRUE]
  /\ s_frameComputeCmdBufs = [i \in 0..1 |-> <<>>]
  /\ s_frameGraphicsCmdBufs = [i \in 0..1 |-> <<>>]
  /\ loc = NoLoc
  /\ computeQ = <<>>
  /\ gctQ = <<>>
  /\ s_computeDoneTimelineSemaphore = 0
  /\ s_graphicsDoneTimelineSemaphore = 0

(* ---------------- start-up ---------------- *)

\* the contexts g_ctx.init may produce: each needed feature or queue present or missing
Contexts == [timelineSemaphore : BOOLEAN, m_queueGCT : BOOLEAN, m_queueC : BOOLEAN]

\* the state at the entry of main(): static initialisers done, no Vulkan object created
ProcessStart ==
  /\ pc = "setupGlobals"
  /\ g_ctx \in Contexts
  /\ g_frameNumber = 0
  /\ gui = [m_wantComputeQueue |-> TRUE, m_batchSize |-> MCUBES_MAX_CHUNKS_PER_BATCH,
            xJobs |-> DefaultJobsPerAxis, yJobs |-> DefaultJobsPerAxis,
            zJobs |-> DefaultJobsPerAxis,
            m_compileFailure |-> FALSE, m_wantSetEquation |-> FALSE,
            m_equationInput |-> "default equation"]
  /\ s_useComputeQueue = TRUE
  /\ s_mcubesImagePipeline = [handle |-> 0, equation |-> "", destroyed |-> FALSE]
  /\ s_upcomingTimelineValue = 1
  /\ s_mcubesChunkIndex = 0
  /\ timelineValue = [i \in 0..(MCUBES_CHUNK_COUNT - 1) |-> 0]
  /\ s_frameComputePoolWaitTimelineValues = [i \in 0..1 |-> 0]
  /\ s_frameGraphicsPoolWaitTimelineValues = [i \in 0..1 |-> 0]
  /\ s_frameGraphicsPoolFences = [i \in 0..1 |-> FALSE]
  /\ s_submitFrameFences = [i \in 0..1 |-> FALSE]
  /\ s_frameComputeCmdBufs = [i \in 0..1 |-> <<>>]
  /\ s_frameGraphicsCmdBufs = [i \in 0..1 |-> <<>>]
  /\ loc = NoLoc
  /\ computeQ = <<>>
  /\ gctQ = <<>>
  /\ s_computeDoneTimelineSemaphore = 0
  /\ s_graphicsDoneTimelineSemaphore = 0

\* mutant: the dedicated compute queue is not checked
NeededFeaturesPresentNoComputeCheck(ctx) == ctx.timelineSemaphore /\ ctx.m_queueGCT
\* the three checks of setupGlobals that end in a throw
NeededFeaturesPresent(ctx) == ctx.timelineSemaphore /\ ctx.m_queueGCT /\ ctx.m_queueC

\* setupGlobals(): a missing feature or queue throws std::runtime_error, which main() does
\* not catch
setupGlobals ==
  /\ pc = "setupGlobals"
  /\ pc' = IF NeededFeaturesPresent(g_ctx) THEN "setupStatics" ELSE "terminated"
  /\ UNCHANGED <<g_ctx, g_frameNumber, gui, s_useComputeQueue, s_mcubesImagePipeline,
                 s_upcomingTimelineValue, s_mcubesChunkIndex, timelineValue,
                 s_frameComputePoolWaitTimelineValues,
                 s_frameGraphicsPoolWaitTimelineValues, s_frameComputeCmdBufs,
                 s_frameGraphicsCmdBufs, loc, fenceVars, devVars>>

\* setupStatics() and the rest of main() up to the frame loop: the fences are created
\* signaled, the timeline semaphores with value 0, the pipeline from the default equation
setupStatics ==
  /\ pc = "setupStatics"
  /\ s_frameGraphicsPoolFences' = [i \in 0..1 |-> TRUE]
  /\ s_submitFrameFences' = [i \in 0..1 |-> TRUE]
  /\ s_computeDoneTimelineSemaphore' = 0
  /\ s_graphicsDoneTimelineSemaphore' = 0
  /\ s_mcubesImagePipeline' = [handle |-> 1, equation |-> gui.m_equationInput,
                               destroyed |-> FALSE]
  /\ s_useComputeQueue' = gui.m_wantComputeQueue
  /\ pc' = "loop"
  /\ UNCHANGED <<g_ctx, g_frameNumber, gui, s_upcomingTimelineValue, s_mcubesChunkIndex,
                 timelineValue, s_frameComputePoolWaitTimelineValues,
                 s_frameGraphicsPoolWaitTimelineValues, s_frameComputeCmdBufs,
                 s_frameGraphicsCmdBufs, loc, computeQ, gctQ>>

(* ---------------- main loop ---------------- *)

\* main(): glfwPollEvents, ++g_frameNumber, pGui->doFrame().  The GUI callbacks and widgets
\* may leave any value in the fields the scheduler reads, or leave them as they are, or
\* take a new equation text (which sets m_wantSetEquation).
PollAndGuiWith(jobInputs, batchSizeInputs, equationInputs) ==
  /\ pc = "loop"
  /\ g_frameNumber' = g_frameNumber + 1
  /\ \/ gui' = gui
     \/ \E want \in BOOLEAN, b \in batchSizeInputs, j \in jobInputs :
          gui' = [gui EXCEPT !.m_wantComputeQueue = want, !.m_batchSize = b,
                             !.xJobs = j, !.yJobs = 1, !.zJobs = 1]
     \/ \E e \in equationInputs :
          gui' = [gui EXCEPT !.m_equationInput = e, !.m_wantSetEquation = TRUE]
  /\ pc' = "respond"
  /\ UNCHANGED <<g_ctx, s_useComputeQueue, s_mcubesImagePipeline, s_upcomingTimelineValue,
                 s_mcubesChunkIndex, timelineValue,
                 s_frameComputePoolWaitTimelineValues, s_frameGraphicsPoolWaitTimelineValues,
                 s_frameComputeCmdBufs, s_frameGraphicsCmdBufs, loc, fenceVars, devVars>>

PollAndGui ==
  /\ g_frameNumber < MaxFrames
  /\ PollAndGuiWith(JobInputs, BatchSizeInputs, {})

\* mutant: the mode is switched without waiting for the device
ModeSwitchNoWait == TRUE
\* the host may pass vkDeviceWaitIdle before a mode switch
ModeSwitchMayProceed == DeviceIdle

\* mutant: the host does not wait before computeReplaceEquation
ReplaceEquationNoWait == TRUE
\* the host may pass vkDeviceWaitIdle before computeReplaceEquation
ReplaceEquationMayProceed == DeviceIdle

\* mutant: the old pipeline is destroyed before the new shader module is checked
setupMcubesImagePipelineDestroysFirst(pipeline, equation, compiled) ==
  IF compiled
    THEN [handle |-> pipeline.handle + 1, equation |-> equation, destroyed |-> FALSE]
    ELSE [pipeline EXCEPT !.destroyed = TRUE]

\* compute.cpp, setupMcubesImagePipeline: s_mcubesImagePipeline after the call; compiled
\* tells whether the shader compiler produced a module
setupMcubesImagePipeline(pipeline, equation, compiled) ==
  IF compiled
    THEN [handle |-> pipeline.handle + 1, equation |-> equation, destroyed |-> FALSE]
    ELSE pipeline

\* main(): respond to GUI events; the mode switch and the replacement of the equation each
\* wait for the device to be idle.  The shader compiler may accept or reject the equation.
RespondGuiEvents ==
  /\ pc = "respond"
  /\ IF gui.m_wantComputeQueue # s_useComputeQueue
       THEN /\ ModeSwitchMayProceed
            /\ s_useComputeQueue' = gui.m_wantComputeQueue
       ELSE UNCHANGED s_useComputeQueue
  /\ IF gui.m_wantSetEquation
       THEN /\ ReplaceEquationMayProceed
            /\ \E compiled \in BOOLEAN :
                 /\ s_mcubesImagePipeline' =
                      setupMcubesImagePipeline(s_mcubesImagePipeline, gui.m_equationInput, compiled)
                 /\ gui' = [gui EXCEPT !.m_compileFailure = ~compiled,
                                       !.m_wantSetEquation = FALSE]
       ELSE UNCHANGED <<gui, s_mcubesImagePipeline>>
  /\ pc' = "schedule"
  /\ UNCHANGED <<g_ctx, g_frameNumber, s_upcomingTimelineValue, s_mcubesChunkIndex, timelineValue,
                 s_frameComputePoolWaitTimelineValues, s_frameGraphicsPoolWaitTimelineValues,
                 s_frameComputeCmdBufs, s_frameGraphicsCmdBufs, loc, fenceVars, devVars>>

(* ---------------- computeDrawCommandsTwoQueues ---------------- *)

\* mutant: the host waits for the compute semaphore only
TwoQueuesPoolWaitComputeOnly ==
  s_computeDoneTimelineSemaphore >= s_frameComputePoolWaitTimelineValues[FrameSlot]

\* vkWaitSemaphoresKHR on both timeline semaphores with the values recorded for this frame slot
TwoQueuesPoolWaitDone ==
  /\ s_computeDoneTimelineSemaphore >= s_frameComputePoolWaitTimelineValues[FrameSlot]
  /\ s_graphicsDoneTimelineSemaphore >= s_frameGraphicsPoolWaitTimelineValues[FrameSlot]

\* locals set up before the batch loop of either scheduler; previousBatch and previousGctOnly
\* are history: the chunks and the mode of the batch submitted last, in whatever frame
FrameLocals ==
  [NoLoc EXCEPT !.previousBatch = loc.previousBatch,
                !.previousGctOnly = loc.previousGctOnly,
                !.paramsCount = getMcubesJobs,
                !.batchSize = Clamp(gui.m_batchSize, 1, MCUBES_MAX_CHUNKS_PER_BATCH),
                !.batchCount = BatchCount(getMcubesJobs,
                                          Clamp(gui.m_batchSize, 1, MCUBES_MAX_CHUNKS_PER_BATCH))]

\* host wait, pool reset and set-up that precede the batch loop
TwoQueuesBegin ==
  /\ pc = "schedule"
  /\ s_useComputeQueue
  /\ TwoQueuesPoolWaitDone
  /\ loc' = FrameLocals
  /\ pc' = IF loc'.batchCount = 0 THEN "submitFrame" ELSE "batchTwoQueues"
  /\ UNCHANGED <<g_ctx, g_frameNumber, gui, s_useComputeQueue, s_mcubesImagePipeline,
                 s_upcomingTimelineValue, s_mcubesChunkIndex,
                 timelineValue, s_frameComputePoolWaitTimelineValues,
                 s_frameGraphicsPoolWaitTimelineValues, s_frameComputeCmdBufs,
                 s_frameGraphicsCmdBufs, fenceVars, devVars>>

\* a command-buffer list after the allocate-or-recycle step for position next (0-based)
CmdBufsAfter(list, next) == IF next < Len(list) THEN list ELSE Append(list, Len(list) + 1)
\* mutant: every batch records into the first command buffer of the list
CmdBufForFirstEntry(list, next) == CmdBufsAfter(list, next)[1]
\* the command buffer the batch records into
CmdBufFor(list, next) == CmdBufsAfter(list, next)[next + 1]

\* batchStart / batchEnd of a batch
BatchStart(batch, batchSize) == batch * batchSize
BatchEnd(batch, batchSize, m) == Min2(BatchStart(batch, batchSize) + batchSize, m)

\* mutant: the chunks are stamped with the value of the batch after this one
StampValueNextBatch(upcoming) == upcoming + 1
\* mutant: the chunks are stamped with the value of the batch before this one
StampValuePreviousBatch(upcoming) == upcoming - 1
\* the value a batch stores into McubesChunk::timelineValue of its chunks
StampValue(upcoming) == upcoming
\* mutant: the compute submission signals the value of the batch before
ComputeSignalValueStale(upcoming) == upcoming - 1
\* computeSignalTimelineValue, graphicsWaitTimelineValue, graphicsSignalTimelineValue
ComputeSignalValue(upcoming) == upcoming
\* mutant: the graphics submission waits for the compute work of the batch after
GraphicsWaitValueNextBatch(upcoming) == upcoming + 1
\* mutant: the graphics submission waits for the compute work of the batch before
GraphicsWaitValuePrevious(upcoming) == upcoming - 1
GraphicsWaitValue(upcoming) == upcoming
\* mutant: the graphics submission signals the value of the batch after
GraphicsSignalValueAhead(upcoming) == upcoming + 1
GraphicsSignalValue(upcoming) == upcoming
\* mutant: the increment is missing
NextUpcomingStuck(upcoming) == upcoming
\* mutant: the value is incremented twice
NextUpcomingTwice(upcoming) == upcoming + 2
\* ++s_upcomingTimelineValue
NextUpcoming(upcoming) == upcoming + 1

\* mutant: the ImGui commands are recorded in every batch
TwoQueuesGraphicsCmdsImGuiAlways(batch, batchCount) ==
  (IF batch = 0 THEN <<"prepareFrame">> ELSE <<>>)
  \o <<"computeToGraphicsBarrier", "drawMcubes", "drawImGui">>

\* mutant: the barrier is recorded after the draw commands
TwoQueuesGraphicsCmdsBarrierLate(batch, batchCount) ==
  (IF batch = 0 THEN <<"prepareFrame">> ELSE <<>>)
  \o <<"drawMcubes", "computeToGraphicsBarrier">>
  \o (IF batch = batchCount - 1 THEN <<"drawImGui">> ELSE <<>>)

\* commands recorded into the graphics command buffer of a dual-queue batch, in order
TwoQueuesGraphicsCmds(batch, batchCount) ==
  (IF batch = 0 THEN <<"prepareFrame">> ELSE <<>>)
  \o <<"computeToGraphicsBarrier", "drawMcubes">>
  \o (IF batch = batchCount - 1 THEN <<"drawImGui">> ELSE <<>>)

\* one iteration of the batch loop: record both command buffers and submit them
TwoQueuesBatch ==
  /\ pc = "batchTwoQueues"
  /\ LET slot == FrameSlot
         batch == loc.batch
         bStart == BatchStart(batch, loc.batchSize)
         bEnd == BatchEnd(batch, loc.batchSize, loc.paramsCount)
         chunks == SelectChunks(s_mcubesChunkIndex, bEnd - bStart)
         wait == MaxTimelineValue(loc.computeWaitTimelineValue, chunks, timelineValue)
         last == (batch = loc.batchCount - 1)
         computeSub == [kind |-> "compute", frame |-> g_frameNumber, batch |-> batch,
                        wait |-> wait, signal |-> ComputeSignalValue(s_upcomingTimelineValue),
                        chunks |-> chunks, fence |-> "none",
                        chunkTimelineValues |-> ChunkTimelineValues(chunks, timelineValue),
                        cmdBuf |-> CmdBufFor(s_frameComputeCmdBufs[slot], loc.nextCmdBufIndex),
                        cmds |-> <<"fillChunks">>,
                        pipeline |-> s_mcubesImagePipeline.handle]
         graphicsSub == [kind |-> "graphics", frame |-> g_frameNumber, batch |-> batch,
                         wait |-> GraphicsWaitValue(s_upcomingTimelineValue),
                         signal |-> GraphicsSignalValue(s_upcomingTimelineValue),
                         chunks |-> chunks, fence |-> "none",
                         chunkTimelineValues |-> <<>>,
                         cmdBuf |-> CmdBufFor(s_frameGraphicsCmdBufs[slot], loc.nextCmdBufIndex),
                         cmds |-> TwoQueuesGraphicsCmds(batch, loc.batchCount),
                         pipeline |-> 0]
     IN
       /\ s_frameComputeCmdBufs' = [s_frameComputeCmdBufs EXCEPT
              ![slot] = CmdBufsAfter(@, loc.nextCmdBufIndex)]
       /\ s_frameGraphicsCmdBufs' = [s_frameGraphicsCmdBufs EXCEPT
              ![slot] = CmdBufsAfter(@, loc.nextCmdBufIndex)]
       /\ s_mcubesChunkIndex' = AdvanceChunkIndex(s_mcubesChunkIndex, bEnd - bStart)
       /\ timelineValue' = [i \in DOMAIN timelineValue |->
              IF i \in Range(chunks) THEN StampValue(s_upcomingTimelineValue)
              ELSE timelineValue[i]]
       /\ computeQ' = Append(computeQ, computeSub)
       /\ gctQ' = Append(gctQ, graphicsSub)
       /\ s_frameComputePoolWaitTimelineValues' =
            IF last THEN [s_frameComputePoolWaitTimelineValues EXCEPT ![slot] = computeSub.signal]
            ELSE s_frameComputePoolWaitTimelineValues
       /\ s_frameGraphicsPoolWaitTimelineValues' =
            IF last THEN [s_frameGraphicsPoolWaitTimelineValues EXCEPT ![slot] = graphicsSub.signal]
            ELSE s_frameGraphicsPoolWaitTimelineValues
       /\ s_upcomingTimelineValue' = NextUpcoming(s_upcomingTimelineValue)
       /\ loc' = [loc EXCEPT !.batch = batch + 1,
                             !.nextCmdBufIndex = @ + 1,
                             !.batchStart = bStart, !.batchEnd = bEnd,
                             !.chunkPointerArray = chunks,
                             !.chunkTimelineValues = computeSub.chunkTimelineValues,
                             !.timelineValuesRead = @ \o computeSub.chunkTimelineValues,
                             !.jobsRecorded = @ \o ParamIndices(bStart, bEnd),
                             !.slotsAcquired = @ \o chunks,
                             !.previousBatch = chunks, !.previousGctOnly = FALSE,
                             !.cmdsRecorded = @ \o graphicsSub.cmds,
                             !.computeWaitTimelineValue = wait,
                             !.computeSignalTimelineValue = computeSub.signal,
                             !.graphicsWaitTimelineValue = graphicsSub.wait,
                             !.graphicsSignalTimelineValue = graphicsSub.signal]
       /\ pc' = IF last THEN "submitFrame" ELSE "batchTwoQueues"
  /\ UNCHANGED <<g_ctx, g_frameNumber, gui, s_useComputeQueue, s_mcubesImagePipeline, fenceVars,
                 s_computeDoneTimelineSemaphore, s_graphicsDoneTimelineSemaphore>>

(* ---------------- computeDrawCommandsGctOnly ---------------- *)

\* vkWaitForFences on the frame slot's graphics pool fence
GctOnlyPoolWaitDone == s_frameGraphicsPoolFences[FrameSlot]

\* fence wait and reset, pool reset and set-up that precede the batch loop
GctOnlyBegin ==
  /\ pc = "schedule"
  /\ ~s_useComputeQueue
  /\ GctOnlyPoolWaitDone
  /\ s_frameGraphicsPoolFences' = [s_frameGraphicsPoolFences EXCEPT ![FrameSlot] = FALSE]
  /\ loc' = FrameLocals
  /\ pc' = IF loc'.batchCount = 0 THEN "submitFrame" ELSE "batchGctOnly"
  /\ UNCHANGED <<g_ctx, g_frameNumber, gui, s_useComputeQueue, s_mcubesImagePipeline,
                 s_upcomingTimelineValue, s_mcubesChunkIndex,
                 timelineValue, s_frameComputePoolWaitTimelineValues,
                 s_frameGraphicsPoolWaitTimelineValues, s_frameComputeCmdBufs,
                 s_frameGraphicsCmdBufs, s_submitFrameFences, devVars>>

\* mutant: no barrier is recorded
GctOnlyCmdsNoBarrier(batch, batchCount) ==
  (IF batch = 0 THEN <<"prepareFrame">> ELSE <<>>)
  \o <<"fillChunks", "drawMcubes">>
  \o (IF batch = batchCount - 1 THEN <<"drawImGui">> ELSE <<>>)

\* commands recorded into the single command buffer of a single-queue batch, in order
GctOnlyCmds(batch, batchCount) ==
  (IF batch = 0 THEN <<"prepareFrame">> ELSE <<>>)
  \o <<"fillChunks", "barrier", "drawMcubes">>
  \o (IF batch = batchCount - 1 THEN <<"drawImGui">> ELSE <<>>)

\* mutant: the submission signals s_upcomingTimelineValue
GctOnlySubmitInfoSignals == [wait |-> 0, signal |-> s_upcomingTimelineValue]
\* the VkSubmitInfo of every single-queue batch: no semaphore to wait for or to signal (0)
GctOnlySubmitInfo == [wait |-> 0, signal |-> 0]

\* mutant: the assert demands a batch size strictly below half the ring
GctOnlyBatchSizeAssertStrict(batchSize) == batchSize < MCUBES_CHUNK_COUNT \div 2
\* assert(batchSize <= MCUBES_CHUNK_COUNT / 2u)
GctOnlyBatchSizeAssert(batchSize) == batchSize <= MCUBES_CHUNK_COUNT \div 2

\* one iteration of the batch loop: record the command buffer and submit it; a failing
\* assert ends the program before the submission
GctOnlyBatch ==
  /\ pc = "batchGctOnly"
  /\ LET slot == FrameSlot
         batch == loc.batch
         bStart == BatchStart(batch, loc.batchSize)
         bEnd == BatchEnd(batch, loc.batchSize, loc.paramsCount)
         chunks == SelectChunks(s_mcubesChunkIndex, bEnd - bStart)
         last == (batch = loc.batchCount - 1)
         sub == [kind |-> "gct", frame |-> g_frameNumber, batch |-> batch,
                 wait |-> GctOnlySubmitInfo.wait, signal |-> GctOnlySubmitInfo.signal,
                 chunks |-> chunks,
                 fence |-> IF last THEN "pool" ELSE "none",
                 chunkTimelineValues |-> <<>>,
                 cmdBuf |-> CmdBufFor(s_frameGraphicsCmdBufs[slot], loc.nextCmdBufIndex),
                 cmds |-> GctOnlyCmds(batch, loc.batchCount),
                 pipeline |-> s_mcubesImagePipeline.handle]
     IN
       /\ s_frameGraphicsCmdBufs' = [s_frameGraphicsCmdBufs EXCEPT
              ![slot] = CmdBufsAfter(@, loc.nextCmdBufIndex)]
       /\ s_mcubesChunkIndex' = AdvanceChunkIndex(s_mcubesChunkIndex, bEnd - bStart)
       /\ IF GctOnlyBatchSizeAssert(loc.batchSize)
            THEN /\ gctQ' = Append(gctQ, sub)
                 /\ loc' = [loc EXCEPT !.batch = batch + 1,
                                       !.nextCmdBufIndex = @ + 1,
                                       !.batchStart = bStart, !.batchEnd = bEnd,
                                       !.jobsRecorded = @ \o ParamIndices(bStart, bEnd),
                                       !.slotsAcquired = @ \o chunks,
                                       !.previousBatch = chunks, !.previousGctOnly = TRUE,
                                       !.cmdsRecorded = @ \o sub.cmds,
                                       !.chunkPointerArray = chunks]
                 /\ pc' = IF last THEN "submitFrame" ELSE "batchGctOnly"
            ELSE /\ pc' = "abort"
                 /\ UNCHANGED <<gctQ, loc>>
  /\ UNCHANGED <<g_ctx, g_frameNumber, gui, s_useComputeQueue, s_mcubesImagePipeline,
                 s_upcomingTimelineValue, timelineValue,
                 s_frameComputePoolWaitTimelineValues, s_frameGraphicsPoolWaitTimelineValues,
                 s_frameComputeCmdBufs, fenceVars, computeQ,
                 s_computeDoneTimelineSemaphore, s_graphicsDoneTimelineSemaphore>>

(* ---------------- submitFrame and shutdown ---------------- *)

\* submitFrame(): wait for and reset the frame fence, submit the copy-to-swapchain commands
SubmitFrame ==
  /\ pc = "submitFrame"
  /\ s_submitFrameFences[FrameSlot]
  /\ s_submitFrameFences' = [s_submitFrameFences EXCEPT ![FrameSlot] = FALSE]
  /\ gctQ' = Append(gctQ, [kind |-> "present", frame |-> g_frameNumber, batch |-> loc.batchCount,
                           wait |-> 0, signal |-> 0, chunks |-> <<>>, fence |-> "frame",
                           chunkTimelineValues |-> <<>>,
                           cmdBuf |-> FrameSlot + 1, cmds |-> <<"copyToSwapImage">>,
                           pipeline |-> 0])
  /\ pc' = "loop"
  /\ UNCHANGED <<g_ctx, g_frameNumber, gui, s_useComputeQueue, s_mcubesImagePipeline,
                 s_upcomingTimelineValue, s_mcubesChunkIndex,
                 timelineValue, s_frameComputePoolWaitTimelineValues,
                 s_frameGraphicsPoolWaitTimelineValues, s_frameComputeCmdBufs,
                 s_frameGraphicsCmdBufs, loc, s_frameGraphicsPoolFences, computeQ,
                 s_computeDoneTimelineSemaphore, s_graphicsDoneTimelineSemaphore>>

\* main(): the window was closed; vkDeviceWaitIdle, then the shutdown calls
Shutdown ==
  /\ pc = "loop"
  /\ DeviceIdle
  /\ pc' = "done"
  /\ UNCHANGED <<g_ctx, g_frameNumber, gui, s_useComputeQueue, s_mcubesImagePipeline,
                 s_upcomingTimelineValue, s_mcubesChunkIndex,
                 timelineValue, s_frameComputePoolWaitTimelineValues,
                 s_frameGraphicsPoolWaitTimelineValues, s_frameComputeCmdBufs,
                 s_frameGraphicsCmdBufs, loc, fenceVars, devVars>>

(* ---------------- the device ---------------- *)

\* mutant: the compute queue does not hold a submission back for its semaphore wait
WaitSatisfiedComputeUnchecked(sub) ==
  CASE sub.kind = "graphics" -> s_computeDoneTimelineSemaphore >= sub.wait
    [] OTHER -> TRUE

\* the semaphore wait of a submission is satisfied (the wait is for at least the value)
WaitSatisfied(sub) ==
  CASE sub.kind = "compute" -> s_graphicsDoneTimelineSemaphore >= sub.wait
    [] sub.kind = "graphics" -> s_computeDoneTimelineSemaphore >= sub.wait
    [] OTHER -> TRUE

\* submission number i of queue q is executing: its wait and the waits of the submissions
\* before it in the queue are satisfied
Executing(q, i) == \A j \in 1..i : WaitSatisfied(q[j])

\* the oldest compute submission completes and signals its semaphore value
ComputeFinish ==
  /\ computeQ # <<>>
  /\ Executing(computeQ, 1)
  /\ s_computeDoneTimelineSemaphore' = Head(computeQ).signal
  /\ computeQ' = Tail(computeQ)
  /\ UNCHANGED <<hostVars, fenceVars, gctQ, s_graphicsDoneTimelineSemaphore>>

\* the oldest graphics-queue submission completes; it signals its semaphore value and its
\* fence, when it has one
GctFinish ==
  /\ gctQ # <<>>
  /\ Executing(gctQ, 1)
  /\ LET sub == Head(gctQ) IN
       /\ s_graphicsDoneTimelineSemaphore' =
            IF sub.kind = "graphics" THEN sub.signal ELSE s_graphicsDoneTimelineSemaphore
       /\ s_frameGraphicsPoolFences' =
            IF sub.fence = "pool"
              THEN [s_frameGraphicsPoolFences EXCEPT ![sub.frame % 2] = TRUE]
              ELSE s_frameGraphicsPoolFences
       /\ s_submitFrameFences' =
            IF sub.fence = "frame"
              THEN [s_submitFrameFences EXCEPT ![sub.frame % 2] = TRUE]
              ELSE s_submitFrameFences
  /\ gctQ' = Tail(gctQ)
  /\ UNCHANGED <<hostVars, computeQ, s_computeDoneTimelineSemaphore>>

(* ---------------- specification ---------------- *)

Next ==
  \/ PollAndGui
  \/ RespondGuiEvents
  \/ TwoQueuesBegin
  \/ TwoQueuesBatch
  \/ GctOnlyBegin
  \/ GctOnlyBatch
  \/ SubmitFrame
  \/ Shutdown
  \/ ComputeFinish
  \/ GctFinish

Spec == Init /\ [][Next]_vars

\* One frame of either scheduler, for every job-list length up to MaxLen and every value of
\* m_batchSize from below to above the slider range; the host alone acts.
PollFirstFrame ==
  /\ g_frameNumber = 0
  /\ PollAndGuiWith(1..MaxLen, 0..(MCUBES_MAX_CHUNKS_PER_BATCH + 1), {})

NextFrame ==
  \/ PollFirstFrame
  \/ RespondGuiEvents
  \/ TwoQueuesBegin
  \/ TwoQueuesBatch
  \/ GctOnlyBegin
  \/ GctOnlyBatch
  \/ SubmitFrame

SpecFrame == Init /\ [][NextFrame]_vars

\* The program over its first MaxShortFrames frames, host and device.
PollOverlapFrames ==
  /\ g_frameNumber < MaxShortFrames
  /\ PollAndGuiWith(JobInputs, BatchSizeInputs, {})

NextOverlap ==
  \/ PollOverlapFrames
  \/ RespondGuiEvents
  \/ TwoQueuesBegin
  \/ TwoQueuesBatch
  \/ GctOnlyBegin
  \/ GctOnlyBatch
  \/ SubmitFrame
  \/ Shutdown
  \/ ComputeFinish
  \/ GctFinish

SpecOverlap == Init /\ [][NextOverlap]_vars

\* The program over MaxFrames frames, so that a frame slot is used a second time, with a
\* user who changes the mode and picks one job count and batch size, under the scheduling
\* the program runs with: the host thread returns from a wait that is satisfied and runs
\* the single-queue batch loop to its end, and each queue eventually completes a submission
\* whose wait, and the waits before it, are satisfied.
PollProgressFrames ==
  /\ g_frameNumber < MaxFrames
  /\ PollAndGuiWith({MaxJobs}, {MCUBES_MAX_CHUNKS_PER_BATCH \div 2}, {})

NextProgress ==
  \/ PollProgressFrames
  \/ RespondGuiEvents
  \/ TwoQueuesBegin
  \/ TwoQueuesBatch
  \/ GctOnlyBegin
  \/ GctOnlyBatch
  \/ SubmitFrame
  \/ Shutdown
  \/ ComputeFinish
  \/ GctFinish

HostFairness ==
  /\ WF_vars(TwoQueuesBegin)
  /\ WF_vars(GctOnlyBegin)
  /\ WF_vars(GctOnlyBatch)
QueueFairness == WF_vars(ComputeFinish) /\ WF_vars(GctFinish)
SpecProgress == Init /\ [][NextProgress]_vars /\ HostFairness /\ QueueFairness

\* The program over its first MaxShortFrames frames with a user who also edits the equation.
PollAndEditEquation ==
  /\ g_frameNumber < MaxShortFrames
  /\ PollAndGuiWith(JobInputs, BatchSizeInputs, EquationInputs)

NextEquation ==
  \/ PollAndEditEquation
  \/ RespondGuiEvents
  \/ TwoQueuesBegin
  \/ TwoQueuesBatch
  \/ GctOnlyBegin
  \/ GctOnlyBatch
  \/ SubmitFrame
  \/ Shutdown
  \/ ComputeFinish
  \/ GctFinish

SpecEquation == Init /\ [][NextEquation]_vars

\* the program from the entry of main(), on any context, through its first frames
NextStartup ==
  \/ setupGlobals
  \/ setupStatics
  \/ NextOverlap
SpecStartup == ProcessStart /\ [][NextStartup]_vars

(* ---------------- properties ---------------- *)

\* the set of positions of a queue
Positions(q) == 1..Len(q)

\* submission a was submitted for an earlier batch than submission b
EarlierBatch(a, b) == a.frame < b.frame \/ (a.frame = b.frame /\ a.batch < b.batch)

\* submissions of the same batch
SameBatch(a, b) == a.frame = b.frame /\ a.batch = b.batch

\* the submission draws chunks (graphics stage of either scheduler)
ReadsChunks(sub) == sub.kind \in {"graphics", "gct"}

\* C1 (WAR safety, dual-queue mode): whenever the compute work of a batch is executing (its
\* semaphore wait has passed, it may write its chunks), no submission of an earlier batch
\* that draws one of these chunks is still uncompleted on the graphics queue, and
\* s_graphicsDoneTimelineSemaphore has reached every timelineValue the batch found in its
\* chunks.
WarSafety ==
  \A i \in Positions(computeQ) :
    Executing(computeQ, i) =>
      LET c == computeQ[i] IN
        /\ \A k \in 1..Len(c.chunkTimelineValues) :
             s_graphicsDoneTimelineSemaphore >= c.chunkTimelineValues[k]
        /\ \A j \in Positions(gctQ) :
             (ReadsChunks(gctQ[j]) /\ EarlierBatch(gctQ[j], c)) =>
               Range(gctQ[j].chunks) \cap Range(c.chunks) = {}

\* C1 witness: a compute batch is executing on a chunk that an earlier dual-queue batch
\* drew (the chunk carried a nonzero timelineValue), while graphics work is still pending.
WarSafetyWitness ==
  \E i \in Positions(computeQ) :
    /\ Executing(computeQ, i)
    /\ \E k \in 1..Len(computeQ[i].chunkTimelineValues) : computeQ[i].chunkTimelineValues[k] > 0
    /\ \E j \in Positions(gctQ) : gctQ[j].kind = "graphics" /\ EarlierBatch(gctQ[j], computeQ[i])

\* C2 (RAW ordering, dual-queue mode): the graphics submission of a batch waits for exactly
\* the value the compute submission of the same batch signals, and it is not executing
\* while that compute submission has not completed.
RawOrdering ==
  \A j \in Positions(gctQ) :
    gctQ[j].kind = "graphics" =>
      \A i \in Positions(computeQ) :
        SameBatch(computeQ[i], gctQ[j]) =>
          /\ gctQ[j].wait = computeQ[i].signal
          /\ ~Executing(gctQ, j)

\* C2 witness: the graphics work of a batch other than the first of the run is executing,
\* while the compute work of a later batch is still pending.
RawOrderingWitness ==
  \E j \in Positions(gctQ) :
    /\ gctQ[j].kind = "graphics"
    /\ gctQ[j].signal > 1
    /\ Executing(gctQ, j)
    /\ computeQ # <<>>

\* a step of the host that runs one iteration of the dual-queue batch loop
TwoQueuesBatchStep == pc = "batchTwoQueues" /\ loc'.batch = loc.batch + 1

\* C3 (circular-dependency check): at every dual-queue batch the value the compute
\* submission waits for is strictly less than s_upcomingTimelineValue, the value the batch
\* signals: assert(computeWaitTimelineValue < s_upcomingTimelineValue) never fails.
CircularDependencyCheck ==
  [][TwoQueuesBatchStep => loc'.computeWaitTimelineValue < s_upcomingTimelineValue]_vars

\* C3 witness: a batch was submitted with a nonzero wait value in the last frame the
\* model explores.
CircularDependencyWitness ==
  /\ pc \in {"batchTwoQueues", "submitFrame"}
  /\ s_useComputeQueue
  /\ loc.computeWaitTimelineValue > 0
  /\ g_frameNumber = MaxFrames

RECURSIVE SeqMax(_)
\* the largest element of a sequence of naturals, 0 for the empty sequence
SeqMax(q) == IF q = <<>> THEN 0 ELSE Max2(Head(q), SeqMax(Tail(q)))

\* C4 (minimal wait threshold), as claimed: the wait value of a dual-queue batch equals the
\* maximum timelineValue, as stored before the batch re-stamps them, over the chunks
\* selected for this batch and over no others.
WaitIsBatchMaximum ==
  loc.chunkTimelineValues # <<>> =>
    loc.computeWaitTimelineValue = SeqMax(loc.chunkTimelineValues)

\* C5 (frame-slot recycling): once a scheduler has reset the command pools of the current
\* frame slot, every uncompleted submission from a pool it reset was recorded in this very
\* frame; nothing submitted from that pool in an earlier frame is still on the device.
\* The dual-queue scheduler resets the compute and the graphics pool, the single-queue
\* scheduler the graphics pool.
PoolResetSafe ==
  pc \in {"batchTwoQueues", "batchGctOnly", "submitFrame"} =>
    /\ \A j \in Positions(gctQ) :
         (ReadsChunks(gctQ[j]) /\ gctQ[j].frame % 2 = FrameSlot) => gctQ[j].frame = g_frameNumber
    /\ s_useComputeQueue =>
         \A i \in Positions(computeQ) :
           computeQ[i].frame % 2 = FrameSlot => computeQ[i].frame = g_frameNumber

\* C5 witness: the dual-queue scheduler has just reset the pools of a frame slot that an
\* earlier dual-queue frame submitted from, while the device is still busy.
PoolResetWitness ==
  /\ pc = "batchTwoQueues"
  /\ loc.batch = 0
  /\ s_frameGraphicsPoolWaitTimelineValues[FrameSlot] > 0
  /\ gctQ # <<>>

\* C6 (companion memory barrier): in the graphics command buffer of every dual-queue batch
\* the compute-to-graphics barrier is recorded, and before every chunk-drawing command.
BarrierBeforeDraw ==
  \A j \in Positions(gctQ) :
    gctQ[j].kind = "graphics" =>
      LET cmds == gctQ[j].cmds IN
        /\ \E d \in 1..Len(cmds) : cmds[d] = "drawMcubes"
        /\ \A d \in 1..Len(cmds) :
             cmds[d] = "drawMcubes" =>
               \E b \in 1..(d - 1) : cmds[b] = "computeToGraphicsBarrier"

\* C6 witness: submitted graphics command buffers of a first batch (frame-start commands
\* precede the barrier) and of a later batch.
BarrierBeforeDrawWitness ==
  /\ \E j \in Positions(gctQ) : gctQ[j].kind = "graphics" /\ gctQ[j].batch = 0
  /\ \E j \in Positions(gctQ) : gctQ[j].kind = "graphics" /\ gctQ[j].batch > 0

\* the last element of a nonempty sequence
Last(q) == q[Len(q)]

\* C7 (per-batch value coupling): with v the value of s_upcomingTimelineValue at a
\* dual-queue batch, the compute submission signals v, the graphics submission waits for v
\* and signals v, and every chunk selected for the batch has its timelineValue set to v.
ValueCoupling ==
  [][TwoQueuesBatchStep =>
       LET v == s_upcomingTimelineValue IN
         /\ Last(computeQ').kind = "compute" /\ Last(computeQ').signal = v
         /\ Last(gctQ').kind = "graphics" /\ Last(gctQ').wait = v /\ Last(gctQ').signal = v
         /\ SameBatch(Last(computeQ'), Last(gctQ'))
         /\ loc'.chunkPointerArray = Last(gctQ').chunks
         /\ loc'.chunkPointerArray # <<>>
         /\ \A c \in Range(loc'.chunkPointerArray) : timelineValue'[c] = v]_vars

\* C7 witness: a batch of several chunks was submitted with a value above 1.
ValueCouplingWitness ==
  /\ loc.graphicsSignalTimelineValue > 1
  /\ Len(loc.chunkPointerArray) > 1

\* C8 (logical clock): s_upcomingTimelineValue starts at 1, grows by exactly 1 at each
\* dual-queue batch and changes at no other step, and the signal values of the submitted
\* batches are pairwise different and below the value the next batch will use.
LogicalClock ==
  /\ s_upcomingTimelineValue = 1
  /\ [][IF TwoQueuesBatchStep
          THEN s_upcomingTimelineValue' = s_upcomingTimelineValue + 1
          ELSE s_upcomingTimelineValue' = s_upcomingTimelineValue]_vars
  /\ [](\A i \in Positions(computeQ) :
          /\ computeQ[i].signal < s_upcomingTimelineValue
          /\ \A j \in Positions(computeQ) : i # j => computeQ[i].signal # computeQ[j].signal)

\* C8 witness: the clock has advanced over dual-queue frames with a single-queue frame
\* between them.
LogicalClockWitness ==
  /\ s_upcomingTimelineValue > 2
  /\ s_useComputeQueue
  /\ \E i \in 0..1 : Len(s_frameGraphicsCmdBufs[i]) > Len(s_frameComputeCmdBufs[i])

\* C9 (strictly increasing signals): every pending signal of a timeline semaphore is for a
\* value above the semaphore's current value and above the values of the signals that
\* execute before it, so each signal raises the semaphore when it executes.
SignalsStrictlyIncrease ==
  /\ \A i \in Positions(computeQ) :
       /\ computeQ[i].signal > s_computeDoneTimelineSemaphore
       /\ \A j \in 1..(i - 1) : computeQ[j].signal < computeQ[i].signal
  /\ \A i \in Positions(gctQ) :
       gctQ[i].kind = "graphics" =>
         /\ gctQ[i].signal > s_graphicsDoneTimelineSemaphore
         /\ \A j \in 1..(i - 1) :
              gctQ[j].kind = "graphics" => gctQ[j].signal < gctQ[i].signal

\* C9 witness: both semaphores have been signaled and further signals are pending on both
\* queues.
SignalsIncreaseWitness ==
  /\ s_computeDoneTimelineSemaphore > 0
  /\ s_graphicsDoneTimelineSemaphore > 0
  /\ Len(computeQ) > 1
  /\ \E i \in Positions(gctQ) : gctQ[i].kind = "graphics"

\* the least n with n * b >= m
CeilDiv(m, b) == CHOOSE n \in 0..m : n * b >= m /\ (n = 0 \/ (n - 1) * b < m)

\* C10 (batch partition): with M jobs and the clamped batch size B, a scheduler forms
\* ceil(M/B) batches; batch i covers the jobs i*B .. min((i+1)*B, M)-1, is not empty, and
\* has B jobs unless it is the last; the jobs recorded up to any point are 0, 1, 2, ... in
\* order, and all M of them once the loop has ended.
BatchPartition ==
  pc \in {"batchTwoQueues", "batchGctOnly", "submitFrame"} =>
    LET M == loc.paramsCount
        B == loc.batchSize
    IN
      /\ M = getMcubesJobs
      /\ B \in 1..MCUBES_MAX_CHUNKS_PER_BATCH
      /\ (gui.m_batchSize \in 1..MCUBES_MAX_CHUNKS_PER_BATCH => B = gui.m_batchSize)
      /\ loc.batchCount = CeilDiv(M, B)
      /\ loc.batch <= loc.batchCount
      /\ loc.jobsRecorded = [k \in 1..Min2(loc.batch * B, M) |-> k - 1]
      /\ loc.batch > 0 =>
           /\ loc.batchStart = (loc.batch - 1) * B
           /\ loc.batchEnd = Min2(loc.batch * B, M)
           /\ loc.batchEnd > loc.batchStart
           /\ Len(loc.chunkPointerArray) = loc.batchEnd - loc.batchStart
           /\ loc.batch < loc.batchCount => loc.batchEnd - loc.batchStart = B
      /\ pc = "submitFrame" => loc.batch = loc.batchCount /\ Len(loc.jobsRecorded) = M

\* C10 witness: a frame has ended whose batch size was clamped from above the slider range
\* and whose last batch is a partial one.
BatchPartitionWitness ==
  /\ pc = "submitFrame"
  /\ gui.m_batchSize > MCUBES_MAX_CHUNKS_PER_BATCH
  /\ loc.batchCount > 2
  /\ loc.paramsCount % loc.batchSize # 0

\* a step of the host that runs one iteration of the batch loop of either scheduler
BatchStep == pc \in {"batchTwoQueues", "batchGctOnly"} /\ loc'.batch = loc.batch + 1

\* the sequence follows the ring: each element is its predecessor plus 1 modulo
\* MCUBES_CHUNK_COUNT
FollowsRing(a) == \A k \in 2..Len(a) : a[k] = (a[k - 1] + 1) % MCUBES_CHUNK_COUNT

\* C11 (round-robin slot assignment): every batch of either scheduler acquires one slot per
\* job; the first is the slot after the one acquired last (by whatever batch, frame or mode),
\* each further one is its predecessor plus 1 modulo MCUBES_CHUNK_COUNT, and
\* s_mcubesChunkIndex is left at the last one; no other step moves the ring position, which
\* stays in 0..MCUBES_CHUNK_COUNT-1.  With 64 jobs in batches of 6 from the initial state
\* there are 11 batches, the last of 4 jobs, and the slots acquired are 1, 2, ..., 11, 0, 1,
\* ... without gap or skip.
RoundRobin ==
  /\ [][IF BatchStep
          THEN LET a == loc'.chunkPointerArray IN
                 /\ Len(a) = loc'.batchEnd - loc'.batchStart
                 /\ Len(a) > 0
                 /\ a[1] = (s_mcubesChunkIndex + 1) % MCUBES_CHUNK_COUNT
                 /\ FollowsRing(a)
                 /\ s_mcubesChunkIndex' = a[Len(a)]
          ELSE s_mcubesChunkIndex' = s_mcubesChunkIndex]_vars
  /\ [](/\ s_mcubesChunkIndex \in 0..(MCUBES_CHUNK_COUNT - 1)
        /\ FollowsRing(loc.slotsAcquired)
        /\ Len(loc.slotsAcquired) = Len(loc.jobsRecorded)
        /\ (g_frameNumber = 1 /\ pc = "submitFrame" /\ loc.paramsCount = 64 /\ loc.batchSize = 6) =>
             /\ loc.batchCount = 11
             /\ loc.batchEnd - loc.batchStart = 4
             /\ loc.slotsAcquired = [k \in 1..64 |-> k % MCUBES_CHUNK_COUNT])

\* C11 witness: after a first dual-queue frame of 64 jobs in 11 batches and a second frame
\* of 7 jobs, a single-queue batch of the third frame takes slot 0 as its first slot: the
\* ring position was carried over two frames and a mode switch and has wrapped around.
RoundRobinWitness ==
  /\ g_frameNumber = 3
  /\ ~s_useComputeQueue
  /\ s_upcomingTimelineValue = 12
  /\ loc.slotsAcquired # <<>>
  /\ loc.slotsAcquired[1] = 0
  /\ Len(loc.chunkPointerArray) > 1

\* the job (0-based) of a frame of m jobs, started with the ring at position 0, that is the
\* last one to take slot s: job j takes slot (j+1) mod MCUBES_CHUNK_COUNT
LastJobOnSlot(s, m) ==
  CHOOSE j \in 0..(m - 1) :
    /\ (j + 1) % MCUBES_CHUNK_COUNT = s
    /\ \A i \in (j + 1)..(m - 1) : (i + 1) % MCUBES_CHUNK_COUNT # s

\* C12 (end-to-end dual-queue scenario): all timelineValue are 0 initially; a dual-queue
\* batch sets the timelineValue of the slots it selected to the value it signals and leaves
\* the other slots alone, and no other step changes a timelineValue: each slot holds the
\* signal value of the most recent dual-queue batch that selected it, or 0.  The first frame,
\* with 64 jobs and batch size 6, submits 11 batches; after it s_upcomingTimelineValue is 12
\* and slot s holds the number of the batch (1..11) of the last job that took it.
EndToEnd ==
  /\ \A c \in DOMAIN timelineValue : timelineValue[c] = 0
  /\ [][IF TwoQueuesBatchStep
          THEN \A c \in DOMAIN timelineValue :
                 timelineValue'[c] = IF c \in Range(Last(computeQ').chunks)
                                       THEN Last(computeQ').signal
                                       ELSE timelineValue[c]
          ELSE timelineValue' = timelineValue]_vars
  /\ []((/\ g_frameNumber = 1 /\ pc = "submitFrame" /\ s_useComputeQueue
          /\ loc.paramsCount = 64 /\ loc.batchSize = 6) =>
          /\ loc.batch = 11
          /\ s_upcomingTimelineValue = 12
          /\ \A c \in DOMAIN timelineValue :
               timelineValue[c] = (LastJobOnSlot(c, 64) \div 6) + 1)

\* C12 witness: the first frame, dual-queue with 64 jobs and batch size 6, has submitted
\* its batches.
EndToEndWitness ==
  /\ g_frameNumber = 1 /\ pc = "submitFrame" /\ s_useComputeQueue
  /\ loc.paramsCount = 64 /\ loc.batchSize = 6
  /\ timelineValue[5] = 9

\* a step of the host that runs one iteration of the single-queue batch loop
GctOnlyBatchStep == pc = "batchGctOnly" /\ loc'.batch = loc.batch + 1

\* C13 (single-queue structural spacing): the chunk slots of a single-queue batch are
\* disjoint from the slots of the batch submitted immediately before it, be that the
\* previous batch of the frame or the last batch of the frame before (whatever its batch size
\* and job count were): a slot is reused two batches later at the earliest.
GctOnlySpacing ==
  [][GctOnlyBatchStep =>
       Range(loc'.chunkPointerArray) \cap Range(loc.previousBatch) = {}]_vars

\* C13 witness: the first batch of a single-queue frame, of the maximum batch size, was
\* submitted right after the last batch of a single-queue frame that had a smaller batch
\* size (it had more than two batches), while that batch is still on the queue.
GctOnlySpacingWitness ==
  /\ pc \in {"batchGctOnly", "submitFrame"}
  /\ loc.batch = 1
  /\ g_frameNumber > 1
  /\ Len(loc.chunkPointerArray) = MCUBES_MAX_CHUNKS_PER_BATCH
  /\ \E i \in Positions(gctQ) :
       /\ gctQ[i].kind = "gct" /\ gctQ[i].frame = g_frameNumber - 1
       /\ gctQ[i].fence = "pool"
       /\ gctQ[i].batch > 1

\* the positions of command c in a command buffer
CmdPositions(cmds, c) == {p \in 1..Len(cmds) : cmds[p] = c}

\* in the submission order of the graphics queue, a barrier lies after every chunk-drawing
\* command of submission i and before every compute command of submission j (i <= j)
BarrierBetween(i, j) ==
  \A d \in CmdPositions(gctQ[i].cmds, "drawMcubes") :
    \A f \in CmdPositions(gctQ[j].cmds, "fillChunks") :
      \E m \in i..j :
        \E b \in CmdPositions(gctQ[m].cmds, "barrier") :
          /\ m = i => b > d
          /\ m = j => b < f

\* C14 (single-queue hazard freedom): the command buffer of every single-queue batch holds
\* the compute commands, then the barrier, then the draw commands; and for any two
\* single-queue batches on the queue that use a common chunk slot, a barrier is recorded
\* between the draw commands of the earlier and the compute commands of the later one.
GctOnlyHazardFree ==
  /\ \A i \in Positions(gctQ) :
       gctQ[i].kind = "gct" =>
         /\ gctQ[i].chunks # <<>>
         /\ CmdPositions(gctQ[i].cmds, "fillChunks") # {}
         /\ CmdPositions(gctQ[i].cmds, "drawMcubes") # {}
         /\ \A f \in CmdPositions(gctQ[i].cmds, "fillChunks") :
              \A d \in CmdPositions(gctQ[i].cmds, "drawMcubes") :
                \E b \in CmdPositions(gctQ[i].cmds, "barrier") : f < b /\ b < d
  /\ \A i, j \in Positions(gctQ) :
       (/\ i < j
        /\ gctQ[i].kind = "gct" /\ gctQ[j].kind = "gct"
        /\ Range(gctQ[i].chunks) \cap Range(gctQ[j].chunks) # {}) => BarrierBetween(i, j)

\* C14 witness: two single-queue batches of different frames that use a common chunk slot
\* are on the queue at the same time.
GctOnlyHazardWitness ==
  \E i, j \in Positions(gctQ) :
    /\ i < j
    /\ gctQ[i].kind = "gct" /\ gctQ[j].kind = "gct"
    /\ gctQ[i].frame < gctQ[j].frame
    /\ Range(gctQ[i].chunks) \cap Range(gctQ[j].chunks) # {}

\* C15 as claimed (single-queue batch-size rejection): a single-queue frame whose
\* configured batch size is MCUBES_CHUNK_COUNT/2 + 1 is rejected: the scheduler submits no
\* batch in it.
BatchSizeRejected ==
  (/\ ~s_useComputeQueue
   /\ pc \in {"batchGctOnly", "submitFrame"}
   /\ gui.m_batchSize = MCUBES_CHUNK_COUNT \div 2 + 1) => loc.batch = 0

\* C15 as amended: the assert of the single-queue scheduler never fails; a configured batch
\* size of MCUBES_CHUNK_COUNT/2 + 1 is clamped to MCUBES_MAX_CHUNKS_PER_BATCH without an
\* error, the frame is scheduled with that batch size, and no submitted batch has more than
\* MCUBES_CHUNK_COUNT/2 chunks.
BatchSizeClamped ==
  /\ pc # "abort"
  /\ \A i \in Positions(gctQ) : Len(gctQ[i].chunks) <= MCUBES_CHUNK_COUNT \div 2
  /\ (/\ ~s_useComputeQueue
      /\ pc \in {"batchGctOnly", "submitFrame"}
      /\ gui.m_batchSize = MCUBES_CHUNK_COUNT \div 2 + 1) =>
        /\ loc.batchSize = MCUBES_MAX_CHUNKS_PER_BATCH
        /\ loc.batchCount = CeilDiv(loc.paramsCount, MCUBES_MAX_CHUNKS_PER_BATCH)
        /\ pc = "submitFrame" => loc.batch = loc.batchCount

\* C15 witness: a single-queue frame configured with batch size 7 has submitted its batches,
\* the first of them with 6 chunks.
BatchSizeClampedWitness ==
  /\ ~s_useComputeQueue
  /\ pc = "submitFrame"
  /\ gui.m_batchSize = MCUBES_CHUNK_COUNT \div 2 + 1
  /\ loc.batch = 2
  /\ \E i \in Positions(gctQ) :
       /\ gctQ[i].kind = "gct" /\ gctQ[i].frame = g_frameNumber
       /\ Len(gctQ[i].chunks) = MCUBES_MAX_CHUNKS_PER_BATCH

\* in the submission order of the graphics queue, a barrier lies after every compute command
\* of submission i and before every compute command of submission j (i < j)
BarrierSeparatesFills(i, j) ==
  \A f1 \in CmdPositions(gctQ[i].cmds, "fillChunks") :
    \A f2 \in CmdPositions(gctQ[j].cmds, "fillChunks") :
      \E m \in i..j :
        \E b \in CmdPositions(gctQ[m].cmds, "barrier") :
          /\ m = i => b > f1
          /\ m = j => b < f2

\* C16 (single producer per slot): two compute operations that write a common chunk slot
\* never execute at the same time.  On the compute queue, while a compute submission is
\* uncompleted, no later compute submission that writes one of its slots is executing; on
\* the graphics queue (single-queue mode) the compute commands of two submissions that
\* write a common slot are separated by a barrier; and compute work of the two modes is
\* never on the device together.
SingleProducer ==
  /\ \A i, j \in Positions(computeQ) :
       (i < j /\ Range(computeQ[i].chunks) \cap Range(computeQ[j].chunks) # {}) =>
         ~Executing(computeQ, j)
  /\ \A i, j \in Positions(gctQ) :
       (/\ i < j
        /\ gctQ[i].kind = "gct" /\ gctQ[j].kind = "gct"
        /\ Range(gctQ[i].chunks) \cap Range(gctQ[j].chunks) # {}) => BarrierSeparatesFills(i, j)
  /\ computeQ # <<>> => \A j \in Positions(gctQ) : gctQ[j].kind # "gct"

\* C16 witness: a compute submission is executing while a later compute submission that
\* writes one of the same slots is on the compute queue, held back by its semaphore wait.
SingleProducerWitness ==
  \E i, j \in Positions(computeQ) :
    /\ i < j
    /\ Range(computeQ[i].chunks) \cap Range(computeQ[j].chunks) # {}
    /\ Executing(computeQ, i)
    /\ ~Executing(computeQ, j)
    /\ computeQ[i].signal > 1

\* C17 (queue overlap is possible): the host is never blocked inside the dual-queue batch
\* loop, and a compute submission never waits for the graphics work of the batch just
\* before it while that work is uncompleted: its wait value is below the value that
\* graphics work signals, so it is not forced to wait for all earlier graphics work.  (The
\* state in which the two queues overlap is QueuesOverlapWitness.)
QueuesOverlap ==
  /\ pc = "batchTwoQueues" => ENABLED TwoQueuesBatch
  /\ \A i \in Positions(computeQ), j \in Positions(gctQ) :
       (gctQ[j].kind = "graphics" /\ computeQ[i].signal = gctQ[j].signal + 1) =>
         computeQ[i].wait < gctQ[j].signal

\* C17 witness: with batches of 6 chunks, the compute work of batch k+1 is executing, past
\* a semaphore wait for a nonzero value, while the graphics work of batch k is executing
\* and has not completed, and the host is still submitting batches of the frame.
QueuesOverlapWitness ==
  \E i \in Positions(computeQ), j \in Positions(gctQ) :
    /\ gctQ[j].kind = "graphics"
    /\ computeQ[i].signal = gctQ[j].signal + 1
    /\ Len(computeQ[i].chunks) = MCUBES_MAX_CHUNKS_PER_BATCH
    /\ Len(gctQ[j].chunks) = MCUBES_MAX_CHUNKS_PER_BATCH
    /\ computeQ[i].wait > 0
    /\ Executing(computeQ, i)
    /\ Executing(gctQ, j)
    /\ pc = "batchTwoQueues"

\* a step of main() in which computeReplaceEquation is called
ReplaceEquationStep == pc = "respond" /\ pc' = "schedule" /\ gui.m_wantSetEquation

\* the submission runs the image-fill compute pipeline
FillsChunks(sub) == sub.kind \in {"compute", "gct"}

\* C18 (kernel-replacement failure leaves state untouched): when computeReplaceEquation
\* returns false, s_mcubesImagePipeline is the pipeline it was before the call and is not
\* destroyed; s_upcomingTimelineValue, s_mcubesChunkIndex, every timelineValue and all
\* other scheduler and device state are unchanged; m_compileFailure becomes true and
\* m_wantSetEquation false, and nothing else of the GUI changes.  The batches of a frame are
\* recorded with the pipeline that is current, which after a failure is the previous one.
ReplaceFailureKeepsState ==
  /\ [][(ReplaceEquationStep /\ gui'.m_compileFailure) =>
          /\ s_mcubesImagePipeline' = s_mcubesImagePipeline
          /\ ~s_mcubesImagePipeline'.destroyed
          /\ UNCHANGED <<s_upcomingTimelineValue, s_mcubesChunkIndex, timelineValue>>
          /\ gui' = [gui EXCEPT !.m_compileFailure = TRUE, !.m_wantSetEquation = FALSE]
          /\ UNCHANGED <<g_frameNumber, s_frameComputePoolWaitTimelineValues,
                         s_frameGraphicsPoolWaitTimelineValues, s_frameComputeCmdBufs,
                         s_frameGraphicsCmdBufs, loc, fenceVars, devVars>>]_vars
  /\ [](/\ ~s_mcubesImagePipeline.destroyed
        /\ \A i \in Positions(computeQ) :
             computeQ[i].frame = g_frameNumber =>
               computeQ[i].pipeline = s_mcubesImagePipeline.handle
        /\ \A i \in Positions(gctQ) :
             (FillsChunks(gctQ[i]) /\ gctQ[i].frame = g_frameNumber) =>
               gctQ[i].pipeline = s_mcubesImagePipeline.handle)

\* C18 witness: after a successful replacement in the first frame, the replacement in the
\* second frame has failed, and a batch of the second frame was recorded with the pipeline
\* that batches of the first frame used.
ReplaceFailureWitness ==
  /\ g_frameNumber = 2
  /\ gui.m_compileFailure
  /\ ~gui.m_wantSetEquation
  /\ s_mcubesImagePipeline.handle = 2
  /\ \E i \in Positions(computeQ) :
       computeQ[i].frame = 2 /\ computeQ[i].pipeline = 2 /\ computeQ[i].signal > 1

\* C19 (drain before kernel replacement): computeReplaceEquation is called only when both
\* queues are empty, whether it then succeeds or fails, and the call itself submits
\* nothing; hence no submission on the device ever runs a pipeline other than the current
\* one.
DrainBeforeReplace ==
  /\ [][ReplaceEquationStep =>
          /\ computeQ = <<>> /\ gctQ = <<>>
          /\ UNCHANGED devVars]_vars
  /\ [](/\ \A i \in Positions(computeQ) : computeQ[i].pipeline = s_mcubesImagePipeline.handle
        /\ \A i \in Positions(gctQ) :
             FillsChunks(gctQ[i]) => gctQ[i].pipeline = s_mcubesImagePipeline.handle)

\* C19 witness: the second frame has just replaced the equation, for the second time with
\* success, after the first frame had submitted its 11 dual-queue batches.
DrainBeforeReplaceWitness ==
  /\ g_frameNumber = 2
  /\ pc = "schedule"
  /\ s_mcubesImagePipeline.handle = 3
  /\ ~gui.m_compileFailure
  /\ s_upcomingTimelineValue = 12
  /\ DeviceIdle

\* C20 (frame-start and frame-end commands): in either mode, the command buffer a batch
\* submits to the graphics queue holds graphicsCmdPrepareFrame exactly when the batch is
\* batch 0, once and before the chunk-draw commands, and graphicsCmdDrawImGui exactly when
\* it is the last batch, once and after the chunk-draw commands; a compute-queue command
\* buffer holds neither.  Every frame has at least one batch, and when its batches are
\* submitted the commands recorded for the graphics queue hold each of the two exactly once.
FrameStartEndCmds ==
  /\ [][BatchStep =>
          LET cmds == Last(gctQ').cmds
              draws == CmdPositions(cmds, "drawMcubes")
              prep == CmdPositions(cmds, "prepareFrame")
              imgui == CmdPositions(cmds, "drawImGui")
          IN
            /\ draws # {}
            /\ Cardinality(prep) = (IF loc.batch = 0 THEN 1 ELSE 0)
            /\ Cardinality(imgui) = (IF loc.batch = loc.batchCount - 1 THEN 1 ELSE 0)
            /\ \A p \in prep, d \in draws : p < d
            /\ \A g \in imgui, d \in draws : d < g
            /\ loc'.cmdsRecorded = loc.cmdsRecorded \o cmds
            /\ s_useComputeQueue =>
                 /\ CmdPositions(Last(computeQ').cmds, "prepareFrame") = {}
                 /\ CmdPositions(Last(computeQ').cmds, "drawImGui") = {}]_vars
  /\ [](pc = "submitFrame" =>
          /\ loc.batchCount >= 1
          /\ loc.batch = loc.batchCount
          /\ Cardinality(CmdPositions(loc.cmdsRecorded, "prepareFrame")) = 1
          /\ Cardinality(CmdPositions(loc.cmdsRecorded, "drawImGui")) = 1
          /\ Cardinality(CmdPositions(loc.cmdsRecorded, "drawMcubes")) = loc.batchCount
          /\ \A d \in CmdPositions(loc.cmdsRecorded, "drawMcubes") :
               /\ \A p \in CmdPositions(loc.cmdsRecorded, "prepareFrame") : p < d
               /\ \A g \in CmdPositions(loc.cmdsRecorded, "drawImGui") : d < g)

\* C20 witness: a dual-queue frame of several batches has submitted its last batch, whose
\* graphics command buffer ends with the ImGui commands and has no frame-start commands,
\* after a single-queue frame.
FrameStartEndWitness ==
  /\ pc = "submitFrame"
  /\ s_useComputeQueue
  /\ loc.batchCount > 1
  /\ Last(loc.cmdsRecorded) = "drawImGui"
  /\ Head(loc.cmdsRecorded) = "prepareFrame"
  /\ Len(s_frameGraphicsCmdBufs[1 - FrameSlot]) > Len(s_frameComputeCmdBufs[1 - FrameSlot])

\* the entries of a command-buffer list are pairwise different command buffers
NoDuplicates(list) == \A a, b \in 1..Len(list) : list[a] = list[b] => a = b

\* the allocate-or-recycle step for position i (0-based): the list grows by one new command
\* buffer exactly when i is its length and is untouched otherwise
RecycledOrAppended(before, after, i) ==
  IF i = Len(before)
    THEN /\ Len(after) = Len(before) + 1
         /\ \A k \in 1..Len(before) : after[k] = before[k]
         /\ after[Len(after)] \notin Range(before)
    ELSE i < Len(before) /\ after = before

\* C21 (command-buffer recycling): batch i of a frame records into entry i of the frame
\* slot's command-buffer list; a command buffer is allocated, and appended, exactly when i
\* is the length of the list; the position counter is 0 at the first batch of every frame
\* and equals the batch number after that; no list ever shrinks; and no command buffer is
\* begun for two batches of one frame.  The compute and the graphics list are each compared
\* with the one position counter, also after single-queue frames grew the graphics list only.
CmdBufRecycling ==
  /\ [][BatchStep =>
          LET slot == FrameSlot
              i == loc.batch
          IN
            /\ loc.nextCmdBufIndex = i
            /\ loc'.nextCmdBufIndex = i + 1
            /\ RecycledOrAppended(s_frameGraphicsCmdBufs[slot], s_frameGraphicsCmdBufs'[slot], i)
            /\ Last(gctQ').cmdBuf = s_frameGraphicsCmdBufs'[slot][i + 1]
            /\ s_frameGraphicsCmdBufs'[1 - slot] = s_frameGraphicsCmdBufs[1 - slot]
            /\ s_frameComputeCmdBufs'[1 - slot] = s_frameComputeCmdBufs[1 - slot]
            /\ IF s_useComputeQueue
                 THEN /\ RecycledOrAppended(s_frameComputeCmdBufs[slot],
                                            s_frameComputeCmdBufs'[slot], i)
                      /\ Last(computeQ').cmdBuf = s_frameComputeCmdBufs'[slot][i + 1]
                 ELSE s_frameComputeCmdBufs'[slot] = s_frameComputeCmdBufs[slot]]_vars
  /\ [][\A s \in {0, 1} :
          /\ Len(s_frameGraphicsCmdBufs'[s]) >= Len(s_frameGraphicsCmdBufs[s])
          /\ Len(s_frameComputeCmdBufs'[s]) >= Len(s_frameComputeCmdBufs[s])]_vars
  /\ [][pc = "schedule" /\ pc' # "schedule" => loc'.nextCmdBufIndex = 0 /\ loc'.batch = 0]_vars
  /\ [](/\ \A s \in {0, 1} : NoDuplicates(s_frameGraphicsCmdBufs[s])
                              /\ NoDuplicates(s_frameComputeCmdBufs[s])
        /\ \A i, j \in Positions(gctQ) :
             (/\ gctQ[i].kind \in {"graphics", "gct"} /\ gctQ[j].kind \in {"graphics", "gct"}
              /\ gctQ[i].frame = gctQ[j].frame /\ gctQ[i].batch # gctQ[j].batch)
               => gctQ[i].cmdBuf # gctQ[j].cmdBuf
        /\ \A i, j \in Positions(computeQ) :
             (computeQ[i].frame = computeQ[j].frame /\ computeQ[i].batch # computeQ[j].batch)
               => computeQ[i].cmdBuf # computeQ[j].cmdBuf)

\* C21 witness: the third batch of a dual-queue frame has been recorded on a frame slot whose
\* graphics list an earlier single-queue frame grew to four entries: the compute list has
\* the two entries just allocated, and the graphics entries were recycled.
CmdBufRecyclingWitness ==
  /\ pc = "batchTwoQueues"
  /\ loc.batch = 2
  /\ Len(s_frameComputeCmdBufs[FrameSlot]) = 2
  /\ Len(s_frameGraphicsCmdBufs[FrameSlot]) = 4
  /\ Last(gctQ).kind = "graphics" /\ Last(gctQ).cmdBuf = 2
  /\ Last(computeQ).cmdBuf = 2

\* the context lacks the timelineSemaphore feature, the graphics queue or the dedicated
\* compute queue
FatalConfiguration ==
  ~g_ctx.timelineSemaphore \/ ~g_ctx.m_queueGCT \/ ~g_ctx.m_queueC

\* C22 (fatal configuration errors): on a context without the timelineSemaphore feature,
\* the graphics queue or the dedicated compute queue, setupGlobals throws: the program goes
\* from its start to termination, never enters the frame loop, and no scheduler call, batch
\* or submission ever happens.
FatalConfigurationStops ==
  /\ [](FatalConfiguration =>
          /\ pc \in {"setupGlobals", "terminated"}
          /\ g_frameNumber = 0
          /\ loc = NoLoc
          /\ computeQ = <<>> /\ gctQ = <<>>
          /\ s_upcomingTimelineValue = 1)
  /\ [][FatalConfiguration => pc = "setupGlobals" /\ pc' = "terminated"]_vars

\* C22 witness: the program has terminated in setupGlobals on a context that has the
\* timelineSemaphore feature and the graphics queue but no dedicated compute queue.
FatalConfigurationWitness ==
  /\ pc = "terminated"
  /\ g_ctx.timelineSemaphore /\ g_ctx.m_queueGCT /\ ~g_ctx.m_queueC

\* C23 (single-queue assertion): whatever m_batchSize holds (a value of the slider range,
\* 0, or 7), every iteration of the single-queue batch loop runs with a batch size that is
\* within 1..MCUBES_MAX_CHUNKS_PER_BATCH (the configured value itself when that is in range)
\* and at most MCUBES_CHUNK_COUNT/2, so the assert passes, the batch is submitted and it
\* holds at most MCUBES_CHUNK_COUNT/2 chunks.
GctOnlyAssertHolds ==
  [][pc = "batchGctOnly" =>
       /\ loc.batchSize >= 1
       /\ loc.batchSize <= MCUBES_MAX_CHUNKS_PER_BATCH
       /\ loc.batchSize <= MCUBES_CHUNK_COUNT \div 2
       /\ (gui.m_batchSize >= 1 /\ gui.m_batchSize <= MCUBES_MAX_CHUNKS_PER_BATCH)
            => loc.batchSize = gui.m_batchSize
       /\ gui.m_batchSize < 1 => loc.batchSize = 1
       /\ gui.m_batchSize > MCUBES_MAX_CHUNKS_PER_BATCH
            => loc.batchSize = MCUBES_MAX_CHUNKS_PER_BATCH
       /\ pc' # "abort"
       /\ loc'.batch = loc.batch + 1
       /\ Len(gctQ') = Len(gctQ) + 1
       /\ Len(Last(gctQ').chunks) >= 1
       /\ Len(Last(gctQ').chunks) <= MCUBES_CHUNK_COUNT \div 2]_vars

\* C23 witness: a single-queue frame whose m_batchSize is 0 is past its third batch, each
\* of one chunk.
GctOnlyAssertWitness ==
  /\ pc = "batchGctOnly"
  /\ ~s_useComputeQueue
  /\ gui.m_batchSize = 0
  /\ loc.batchSize = 1
  /\ loc.batch = 3
  /\ Len(gctQ) = 3

\* the signal values the frames of SpecProgress can submit
SignalValues ==
  1..(MaxFrames * BatchCount(DefaultJobsPerAxis * DefaultJobsPerAxis * DefaultJobsPerAxis,
                                  MCUBES_MAX_CHUNKS_PER_BATCH))

\* some queue holds a submission and none can complete
QueuesStuck ==
  /\ computeQ # <<>> \/ gctQ # <<>>
  /\ computeQ # <<>> => ~WaitSatisfied(Head(computeQ))
  /\ gctQ # <<>> => ~WaitSatisfied(Head(gctQ))

\* C24 (deadlock freedom and progress, dual-queue mode): under the fair scheduling of the
\* queues, every signal value a dual-queue batch was submitted with is eventually reached by
\* both timeline semaphores (its compute and its graphics submission complete), up to the
\* last one, s_upcomingTimelineValue - 1; the host wait at the start of
\* computeDrawCommandsTwoQueues always returns; and the pending submissions never all wait
\* for each other.
TwoQueuesProgress ==
  /\ \A v \in SignalValues :
       (s_upcomingTimelineValue > v) ~>
         (s_computeDoneTimelineSemaphore >= v /\ s_graphicsDoneTimelineSemaphore >= v)
  /\ (pc = "schedule" /\ s_useComputeQueue) ~> (pc = "batchTwoQueues")
  /\ []~QueuesStuck

\* C24 witness: the host is blocked at the start of computeDrawCommandsTwoQueues in the wait
\* for the frame slot's values while both queues hold submissions of the frame before, and
\* the compute queue's oldest submission waits for a graphics value not yet reached.
TwoQueuesProgressWitness ==
  /\ pc = "schedule" /\ s_useComputeQueue
  /\ ~TwoQueuesPoolWaitDone
  /\ computeQ # <<>> /\ gctQ # <<>>
  /\ ~WaitSatisfied(Head(computeQ))

\* the largest element of a finite set of naturals, 0 for the empty set
SetMax(S) == IF S = {} THEN 0 ELSE CHOOSE m \in S : \A x \in S : x <= m

TwoQueuesSubmission(sub) == sub.kind \in {"compute", "graphics"}
GctOnlySubmission(sub) == sub.kind = "gct"

\* C26 (mode switches on an idle device): the step of main() that changes s_useComputeQueue
\* starts with both queues empty and submits nothing; the first scheduler call after a frame
\* of the other mode starts on an idle device; so the device never holds submissions of the
\* two schedulers at the same time: a pending single-queue batch never meets a pending
\* dual-queue batch it could share a chunk slot or a command pool with.
ModeSwitchOnIdleDevice ==
  /\ [][(pc = "respond" /\ s_useComputeQueue' # s_useComputeQueue) =>
          DeviceIdle /\ UNCHANGED devVars]_vars
  /\ [][(/\ pc = "schedule" /\ pc' # "schedule"
         /\ loc.previousBatch # <<>>
         /\ loc.previousGctOnly = s_useComputeQueue) => DeviceIdle]_vars
  /\ [](\A i \in Positions(gctQ) :
          GctOnlySubmission(gctQ[i]) =>
            /\ \A j \in Positions(gctQ) : ~TwoQueuesSubmission(gctQ[j])
            /\ computeQ = <<>>)

\* C26 witness: the third frame is a dual-queue frame that follows a single-queue frame that
\* followed a dual-queue frame; its second batch has been submitted, and some slot of the
\* frame still held timelineValue 0 after the single-queue frame had moved the ring on.
ModeSwitchWitness ==
  /\ g_frameNumber = 3
  /\ pc = "batchTwoQueues"
  /\ loc.batch = 2
  /\ s_upcomingTimelineValue > 3
  /\ Len(s_frameGraphicsCmdBufs[0]) > Len(s_frameComputeCmdBufs[0])
  /\ \E k \in 1..Len(loc.timelineValuesRead) : loc.timelineValuesRead[k] = 0
  /\ computeQ # <<>>

\* a step of computeDrawCommandsGctOnly: the part before the batch loop, or one iteration
GctOnlyStep ==
  \/ pc = "schedule" /\ ~s_useComputeQueue /\ pc' # "schedule"
  \/ pc = "batchGctOnly" /\ pc' # pc
  \/ GctOnlyBatchStep

\* C27 (frame effect of the single-queue scheduler): no step of computeDrawCommandsGctOnly
\* changes s_upcomingTimelineValue, a slot's timelineValue, the pool wait values of either
\* queue, a compute command-buffer list, the compute queue, or anything of the other frame
\* slot; its submissions wait for no semaphore and signal none, also when they complete.
\* What it changes is s_mcubesChunkIndex and the frame slot's graphics fence and graphics
\* command-buffer list.
GctOnlyFrameEffect ==
  /\ [][GctOnlyStep =>
          /\ UNCHANGED <<s_upcomingTimelineValue, timelineValue,
                         s_frameComputePoolWaitTimelineValues,
                         s_frameGraphicsPoolWaitTimelineValues, s_frameComputeCmdBufs,
                         computeQ, s_computeDoneTimelineSemaphore,
                         s_graphicsDoneTimelineSemaphore, s_submitFrameFences,
                         s_useComputeQueue, s_mcubesImagePipeline, gui, g_frameNumber>>
          /\ s_frameGraphicsCmdBufs'[1 - FrameSlot] = s_frameGraphicsCmdBufs[1 - FrameSlot]
          /\ s_frameGraphicsPoolFences'[1 - FrameSlot] = s_frameGraphicsPoolFences[1 - FrameSlot]
          /\ gctQ' # gctQ =>
               /\ gctQ' = Append(gctQ, Last(gctQ'))
               /\ Last(gctQ').kind = "gct"
               /\ Last(gctQ').wait = 0 /\ Last(gctQ').signal = 0
               /\ s_mcubesChunkIndex' =
                    (s_mcubesChunkIndex + Len(Last(gctQ').chunks)) % MCUBES_CHUNK_COUNT]_vars
  /\ [](\A i \in Positions(gctQ) :
          gctQ[i].kind = "gct" => gctQ[i].wait = 0 /\ gctQ[i].signal = 0 /\ WaitSatisfied(gctQ[i]))
  /\ [][(gctQ # <<>> /\ gctQ' = Tail(gctQ) /\ Head(gctQ).kind = "gct") =>
          UNCHANGED <<s_computeDoneTimelineSemaphore, s_graphicsDoneTimelineSemaphore>>]_vars

\* C27 witness: a single-queue frame that follows a dual-queue frame has submitted its
\* batches: the ring index has moved, the frame slot's graphics list has grown and its fence
\* is unsignaled, while the values the dual-queue frame left are all in place.
GctOnlyFrameEffectWitness ==
  /\ pc = "submitFrame"
  /\ ~s_useComputeQueue
  /\ g_frameNumber = 2
  /\ loc.batch > 1
  /\ s_upcomingTimelineValue > 1
  /\ s_frameComputePoolWaitTimelineValues[1] = s_upcomingTimelineValue - 1
  /\ \E i \in DOMAIN timelineValue : timelineValue[i] > 0
  /\ s_frameComputeCmdBufs[FrameSlot] = <<>>
  /\ Len(s_frameGraphicsCmdBufs[FrameSlot]) = loc.batch
  /\ ~s_frameGraphicsPoolFences[FrameSlot]

\* the step that submits the last batch of a dual-queue frame
TwoQueuesLastBatchStep == TwoQueuesBatchStep /\ loc.batch = loc.batchCount - 1

\* the value is 0 or a signal value that semaphore sem has reached or that a pending
\* submission of queue q will signal
SubmittedSignal(v, q, sem) == v = 0 \/ sem >= v \/ \E k \in Positions(q) : q[k].signal = v

\* C28 (host wait targets): for both frame slots the compute and the graphics pool wait
\* value are equal, and below s_upcomingTimelineValue; they change only when the last batch
\* of a dual-queue frame is submitted, to the signal value of that batch and for that frame's
\* slot only, so each is 0 or the value the last batch of the most recent dual-queue frame
\* on the slot signals: a value already reached or signaled by a pending submission.
HostWaitTargets ==
  /\ [](\A i \in {0, 1} :
          /\ s_frameComputePoolWaitTimelineValues[i] = s_frameGraphicsPoolWaitTimelineValues[i]
          /\ s_frameComputePoolWaitTimelineValues[i] >= 0
          /\ s_frameComputePoolWaitTimelineValues[i] < s_upcomingTimelineValue
          /\ SubmittedSignal(s_frameComputePoolWaitTimelineValues[i], computeQ,
                             s_computeDoneTimelineSemaphore)
          /\ SubmittedSignal(s_frameGraphicsPoolWaitTimelineValues[i], gctQ,
                             s_graphicsDoneTimelineSemaphore))
  /\ [][IF TwoQueuesLastBatchStep
          THEN /\ s_frameComputePoolWaitTimelineValues'[FrameSlot] = Last(computeQ').signal
               /\ s_frameGraphicsPoolWaitTimelineValues'[FrameSlot] = Last(gctQ').signal
               /\ Last(computeQ').frame = g_frameNumber /\ Last(gctQ').frame = g_frameNumber
               /\ Last(computeQ').batch = loc.batchCount - 1
               /\ Last(gctQ').batch = loc.batchCount - 1
               /\ s_frameComputePoolWaitTimelineValues'[1 - FrameSlot] =
                    s_frameComputePoolWaitTimelineValues[1 - FrameSlot]
               /\ s_frameGraphicsPoolWaitTimelineValues'[1 - FrameSlot] =
                    s_frameGraphicsPoolWaitTimelineValues[1 - FrameSlot]
          ELSE UNCHANGED <<s_frameComputePoolWaitTimelineValues,
                           s_frameGraphicsPoolWaitTimelineValues>>]_vars

\* C28 witness: two dual-queue frames have left different non-zero values for the two frame
\* slots; the third frame's scheduler call waits for the value of its slot, which the
\* graphics semaphore has not reached and a pending submission of the first frame signals.
HostWaitTargetsWitness ==
  /\ g_frameNumber = 3
  /\ s_useComputeQueue
  /\ pc = "schedule"
  /\ s_frameComputePoolWaitTimelineValues[1] > 1
  /\ s_frameGraphicsPoolWaitTimelineValues[0] > s_frameComputePoolWaitTimelineValues[1]
  /\ s_frameGraphicsPoolWaitTimelineValues[0] = s_upcomingTimelineValue - 1
  /\ s_graphicsDoneTimelineSemaphore < s_frameGraphicsPoolWaitTimelineValues[1]
  /\ \E k \in Positions(gctQ) :
       gctQ[k].frame = 1 /\ gctQ[k].signal = s_frameGraphicsPoolWaitTimelineValues[1]

\* the compute work of the dual-queue batch that signals v has started executing: its
\* submission is executing on the compute queue, or has completed
ComputeStarted(v) ==
  \A i \in Positions(computeQ) : computeQ[i].signal = v => Executing(computeQ, i)

\* the pending graphics submissions of dual-queue batches whose compute work has started
InFlightBatches ==
  {j \in Positions(gctQ) : gctQ[j].kind = "graphics" /\ ComputeStarted(gctQ[j].signal)}

\* the jobs of those batches, each as (position of its batch, position in the batch)
InFlightJobs ==
  UNION {{<<j, k>> : k \in 1..Len(gctQ[j].chunks)} : j \in InFlightBatches}

\* C29 (ring occupancy, dual-queue mode): the jobs whose compute work has started executing
\* and whose graphics work has not completed are at most MCUBES_CHUNK_COUNT in number, and
\* no two of them occupy the same chunk slot.
RingOccupancy ==
  /\ Cardinality(InFlightJobs) <= MCUBES_CHUNK_COUNT
  /\ \A a, b \in InFlightJobs :
       gctQ[a[1]].chunks[a[2]] = gctQ[b[1]].chunks[b[2]] => a = b

\* C29 witness: the ring is full: twelve jobs of two batches are in flight, and the compute
\* submission of a third batch is held back by its wait for the graphics work of the first.
RingOccupancyWitness ==
  /\ Cardinality(InFlightJobs) = MCUBES_CHUNK_COUNT
  /\ Cardinality(InFlightBatches) = 2
  /\ \E i \in Positions(computeQ) :
       /\ ~WaitSatisfied(computeQ[i])
       /\ \E j \in InFlightBatches : Range(computeQ[i].chunks) \cap Range(gctQ[j].chunks) # {}

\* the pending submissions that signal the graphics pool fence of frame slot s
PoolFenceSubmissions(s) ==
  {j \in Positions(gctQ) : gctQ[j].fence = "pool" /\ gctQ[j].frame % 2 = s}

\* the host is inside the single-queue scheduler call of a frame on slot s, before the
\* submission of its last batch
GctOnlyCallRunning(s) == pc = "batchGctOnly" /\ FrameSlot = s

\* C30 (single-queue fence protocol): a call of computeDrawCommandsGctOnly starts with the
\* frame slot's graphics fence signaled and resets it; the fence is attached to the
\* submission of the last batch of that frame and to no other, so an unsignaled fence has
\* exactly one pending submission that will signal it once the call has submitted its
\* batches; an unsignaled fence is eventually signaled again, and the host wait at the
\* start of the call returns.
GctOnlyFenceProtocol ==
  /\ [][(pc = "schedule" /\ ~s_useComputeQueue /\ pc' # "schedule") =>
          /\ s_frameGraphicsPoolFences[FrameSlot]
          /\ ~s_frameGraphicsPoolFences'[FrameSlot]
          /\ s_frameGraphicsPoolFences'[1 - FrameSlot] = s_frameGraphicsPoolFences[1 - FrameSlot]
          /\ PoolFenceSubmissions(FrameSlot) = {}]_vars
  /\ [][GctOnlyBatchStep =>
          /\ (Last(gctQ').fence = "pool") = (loc.batch = loc.batchCount - 1)
          /\ Last(gctQ').fence \in {"pool", "none"}
          /\ Last(gctQ').frame = g_frameNumber]_vars
  /\ [](\A s \in {0, 1} :
          IF s_frameGraphicsPoolFences[s] \/ GctOnlyCallRunning(s)
            THEN PoolFenceSubmissions(s) = {}
            ELSE Cardinality(PoolFenceSubmissions(s)) = 1)
  /\ \A s \in {0, 1} : (~s_frameGraphicsPoolFences[s]) ~> s_frameGraphicsPoolFences[s]
  /\ (pc = "schedule" /\ ~s_useComputeQueue) ~> (pc = "batchGctOnly")

\* C30 witness: the third frame is a single-queue frame and the host is blocked at the
\* start of its scheduler call: the fence of its frame slot was reset by the first frame,
\* whose last batch is still pending with the fence attached.
GctOnlyFenceWitness ==
  /\ g_frameNumber = 3
  /\ pc = "schedule" /\ ~s_useComputeQueue
  /\ ~s_frameGraphicsPoolFences[FrameSlot]
  /\ \E j \in Positions(gctQ) :
       /\ gctQ[j].frame = 1 /\ gctQ[j].fence = "pool" /\ gctQ[j].batch > 0

====
